---------------------------- MODULE Spec2Model ----------------------------
(***************************************************************************)
(* A model of finl_charsub's substitution engine (src/src/charsub.rs):     *)
(* the rule trie (SubstitutionTrie), the streaming matcher                 *)
(* (CharSubMachine::process), the boundary flush (CharSubMachine::flush)   *)
(* and the backtracking helper (_flush_substitution); of the config file   *)
(* loader (parse_charsub_config_line, CharSubMachine::from_buf_reader);    *)
(* and of the escape decoder (src/src/unescape.rs).                        *)
(*                                                                         *)
(* Strings are sequences of one-character strings.  The code slices by     *)
(* byte offset, always at offsets delivered by char_indices() or at        *)
(* len(), i.e. at character boundaries; the model counts characters, so    *)
(* Slice(s, a, b) is s.get(a..b) with 0-based, end-exclusive offsets.      *)
(* Option<T> is a sequence of length at most one: None is << >> and        *)
(* Some(x) is <<x>>.                                                       *)
(***************************************************************************)
EXTENDS Naturals, Sequences, FiniteSets, TLC

\* Bounds of the model: the length of a rule input given to
\* add_substitution, the number of rules add_substitution may register, the
\* length of the text of one run (RunSpec) and of one chunk (Spec).  Longer
\* and more deeply nested rules come from RuleFiles.
MaxRuleLen == 2
MaxRules == 2
MaxText == 3
MaxChunk == 2

\* Bounds of the inputs of the config file parser and of unescape: a config
\* line is made of at most MaxLinePieces pieces (LinePieces), a string given
\* to unescape of at most MaxPieces pieces (UnescapePieces).
MaxLinePieces == 5
MaxPieces == 4

\* The characters of rule inputs and of processed text.
Chars == {"A", "B"}

\* The replacement strings offered to add_substitution (the empty one included).
Outputs == {<< >>, <<"x">>}

RECURSIVE SeqsUpTo(_, _)
SeqsUpTo(S, n) ==
    IF n = 0 THEN {<< >>}
    ELSE LET shorter == SeqsUpTo(S, n - 1)
         IN  shorter \cup {Append(s, c) : s \in {t \in shorter : Len(t) = n - 1}, c \in S}

\* The rule inputs offered to add_substitution: the empty one and those
\* that begin with "A", which leaves "B" a character that begins no rule
\* unless the engine was constructed from a file with such a rule.
RuleInputs == {s \in SeqsUpTo(Chars, MaxRuleLen) : s = << >> \/ s[1] = "A"}

\* The chunks offered to process (the empty one included): in Spec, and in
\* RunSpec, where MaxText bounds the text of a whole run.
Chunks == SeqsUpTo(Chars, MaxChunk)
RunChunks == SeqsUpTo(Chars, MaxText)

---------------------------------------------------------------------------
\* Option<T>
None == << >>
Some(x) == <<x>>
IsSome(o) == o # << >>
Unwrap(o) == o[1]

\* s.get(a..b): characters a .. b-1 (0-based).
Slice(s, a, b) == SubSeq(s, a + 1, b)

IsPrefix(p, s) == Len(p) <= Len(s) /\ SubSeq(s, 1, Len(p)) = p

Prefixes(s) == {SubSeq(s, 1, k) : k \in 0..Len(s)}

---------------------------------------------------------------------------
(***************************************************************************)
(* SubstitutionTrie.  A trie is a function from its nodes to their         *)
(* `output` field; a node is named by the path of characters from the      *)
(* root, so node n has a child under key ch iff Append(n, ch) is a node.   *)
(***************************************************************************)
Root == << >>

\* SubstitutionTrie::new(): a root with no output and no children.
SubstitutionTrie_new == [n \in {Root} |-> None]

\* node.children.contains_key(&ch)
contains_key(t, node, ch) == Append(node, ch) \in DOMAIN t

\* node.children.is_empty()
children_is_empty(t, node) ==
    ~ \E n \in DOMAIN t : Len(n) = Len(node) + 1 /\ IsPrefix(node, n)

\* add that keeps the output a node already has.
add_first_write_wins(t, input, output) ==
    [n \in DOMAIN t \cup Prefixes(input) |->
        IF n \in DOMAIN t /\ IsSome(t[n]) THEN t[n]
        ELSE IF n = input THEN Some(output)
        ELSE None]

\* add that creates the nodes of the path and sets no output.
add_no_output(t, input, output) ==
    [n \in DOMAIN t \cup Prefixes(input) |->
        IF n \in DOMAIN t THEN t[n] ELSE None]

\* SubstitutionTrie::add: walk from the root, creating one child per
\* character of input where it is missing (entry().or_insert_with(new)),
\* then set the output of the node reached.
add(t, input, output) ==
    [n \in DOMAIN t \cup Prefixes(input) |->
        IF n = input THEN Some(output)
        ELSE IF n \in DOMAIN t THEN t[n]
        ELSE None]

\* The condition under which add prints its "Overwriting mapping" notice.
add_overwrites(t, input) == input \in DOMAIN t /\ IsSome(t[input])

---------------------------------------------------------------------------
(***************************************************************************)
(* The charsub config file: parse_charsub_config_line and                  *)
(* CharSubMachine::from_buf_reader.  A file is the sequence of its lines   *)
(* (what BufRead::lines() yields, every read succeeding), a line a string. *)
(* Result<T, E> is a record: Ok(v) or Err(e).                              *)
(***************************************************************************)
Ok(v) == [ok |-> TRUE, val |-> v]
Err(e) == [ok |-> FALSE, err |-> e]

\* The character U+00A0 (no-break space).
NBSP == "U+00A0"

\* The characters of the model that have the Unicode White_Space property.
WhiteSpace == {" ", "\t", NBSP}

\* char::is_ascii_whitespace, which does not hold of U+00A0.
is_ascii_whitespace(c) == c \in {" ", "\t"}

\* char::is_whitespace
is_whitespace(c) == c \in WhiteSpace

\* str::split_whitespace, collected: the maximal runs of characters that
\* are not whitespace, in order.
RECURSIVE split_whitespace(_)
split_whitespace(s) ==
    IF s = << >> THEN << >>
    ELSE IF is_whitespace(s[1]) THEN split_whitespace(Tail(s))
    ELSE LET stop == IF \E i \in 1..Len(s) : is_whitespace(s[i])
                     THEN CHOOSE i \in 1..Len(s) :
                              /\ is_whitespace(s[i])
                              /\ \A j \in 1..(i - 1) : ~ is_whitespace(s[j])
                     ELSE Len(s) + 1
         IN  <<SubSeq(s, 1, stop - 1)>> \o split_whitespace(SubSeq(s, stop, Len(s)))

\* CharSubError::MissingMapToValue(line)
MissingMapToValue(line) == [kind |-> "MissingMapToValue", line |-> line]

\* parse_charsub_config_line that takes a line without a map-to value for a
\* comment.
parse_missing_is_comment(line) ==
    LET words == split_whitespace(line)
    IN  IF Len(words) < 2 THEN Ok(None)
        ELSE Ok(Some(<<words[1], words[2]>>))

\* parse_charsub_config_line: Ok(None) for a blank line or a comment,
\* Ok(Some((map_from, map_to))) for a mapping; the two words are returned as
\* they stand in the line.
parse_charsub_config_line(line) ==
    LET first_char == IF line = << >> THEN " " ELSE line[1]
        words == split_whitespace(line)
    IN  IF is_whitespace(first_char) THEN Ok(None)
        ELSE IF Len(words) < 2 THEN Err(MissingMapToValue(line))
        ELSE Ok(Some(<<words[1], words[2]>>))

\* The loop of from_buf_reader from line i (1-based) on: a line that does
\* not parse ends it with the error (result?), Ok(None) is filtered out,
\* a mapping is added to the engine under construction.
RECURSIVE read_lines(_, _, _)
read_lines(lines, i, return_value) ==
    IF i > Len(lines) THEN Ok(return_value)
    ELSE LET result == parse_charsub_config_line(lines[i])
         IN  IF ~ result.ok THEN result
             ELSE IF result.val = None THEN read_lines(lines, i + 1, return_value)
             ELSE read_lines(lines, i + 1,
                             add(return_value, Unwrap(result.val)[1],
                                 Unwrap(result.val)[2]))

\* CharSubMachine::from_buf_reader: Ok(the trie of the engine constructed)
\* or the error of the first line that does not parse.
from_buf_reader(lines) == read_lines(lines, 1, SubstitutionTrie_new)

\* The mapping files the engines of Spec and RunSpec are constructed from:
\* the empty file (which gives what CharSubMachine::new() gives) and files
\* whose rules nest three deep along one path, with and without gaps
\* between the nested inputs.
RuleFiles ==
    { << >>,
      << <<"A", " ", "x">>, <<"A", "B", " ", "y">>,
         <<"A", "B", "A", "B", " ", "z">> >>,
      << <<"A", " ", "x">>, <<"A", "A", " ", "y">>,
         <<"A", "A", "A", "B", " ", "z">> >>,
      << <<"A", "B", "A", "A", " ", "z">>, <<"A", "B", " ", "y">>,
         <<"B", " ", "x">> >>,
      << <<"A", " ", "x">>, <<"A", "B", "A", " ", "y">>,
         <<"A", "B", "A", "B", "B", " ", "z">> >> }

---------------------------------------------------------------------------
(***************************************************************************)
(* unescape (src/src/unescape.rs).  A character is a one-character string  *)
(* or, for a character outside ASCII, the name of its code point.  The     *)
(* loop over input.char_indices() is unescape_loop; index counts the       *)
(* characters before the current one (0-based), so input.get(..index) is   *)
(* Slice(input, 0, index).                                                 *)
(***************************************************************************)
\* The largest code point, 0x10FFFF.
MaxCodePoint == 1114111

\* The characters of the model with their code points.
CodePoints ==
    { <<0, "U+0000">>, <<9, "\t">>, <<10, "\n">>, <<13, "\r">>, <<32, " ">>,
      <<34, "\"">>, <<39, "'">>, <<48, "0">>, <<49, "1">>, <<50, "2">>,
      <<52, "4">>, <<56, "8">>, <<57, "9">>, <<65, "A">>, <<66, "B">>,
      <<68, "D">>, <<70, "F">>, <<92, "\\">>, <<110, "n">>, <<113, "q">>,
      <<114, "r">>, <<116, "t">>, <<117, "u">>, <<120, "x">>, <<121, "y">>,
      <<122, "z">>, <<123, "{">>, <<125, "}">>, <<160, NBSP>>,
      <<8217, "U+2019">>, <<MaxCodePoint, "U+10FFFF">> }

\* char::from_u32: None for a surrogate (0xD800..0xDFFF) and for a value
\* above 0x10FFFF, otherwise the character with that code point (one of
\* CodePoints, or named by the decimal value of its code point).
from_u32(v) ==
    IF v > MaxCodePoint \/ (55296 <= v /\ v <= 57343) THEN None
    ELSE IF \E e \in CodePoints : e[1] = v
    THEN Some((CHOOSE e \in CodePoints : e[1] = v)[2])
    ELSE Some("#" \o ToString(v))

\* char::to_digit(0x10)
HexDigits ==
    <<"0", "1", "2", "3", "4", "5", "6", "7", "8", "9", "a", "b", "c", "d", "e", "f">>
HexDigitsUpper ==
    <<"0", "1", "2", "3", "4", "5", "6", "7", "8", "9", "A", "B", "C", "D", "E", "F">>
to_digit(ch) ==
    IF \E i \in 1..16 : HexDigits[i] = ch \/ HexDigitsUpper[i] = ch
    THEN Some((CHOOSE i \in 1..16 : HexDigits[i] = ch \/ HexDigitsUpper[i] = ch) - 1)
    ELSE None

\* UnescapeError: the five variants, each with its String and its char.
BadEscape(s, ch) == [kind |-> "BadEscape", parsed |-> s, ch |-> ch]
MissingOpenBrace(s, ch) == [kind |-> "MissingOpenBrace", parsed |-> s, ch |-> ch]
NonHexDigit(s, ch) == [kind |-> "NonHexDigit", parsed |-> s, ch |-> ch]
HexValueTooLarge(s, ch) == [kind |-> "HexValueTooLarge", parsed |-> s, ch |-> ch]
InvalidUnicodeValue(s, ch) == [kind |-> "InvalidUnicodeValue", parsed |-> s, ch |-> ch]

\* The String of an error that also holds the character parsing failed at.
parsed_with_failing_char(input, index) == Slice(input, 0, index + 1)

\* input.get(..index).unwrap().to_string(): the String of an error.
parsed_portion(input, index) == Slice(input, 0, index)

\* char::len_utf8 of the character with code point v.
len_utf8(v) == IF v < 128 THEN 1 ELSE IF v < 2048 THEN 2 ELSE IF v < 65536 THEN 3 ELSE 4

\* modified_string.push(c) / push_str(s) for ASCII characters; modified_len
\* is modified_string.len(), the length in bytes.
push(st, s) == [st EXCEPT !.modified_string = @ \o s, !.modified_len = @ + Len(s)]

\* modified_string.push(valid_char) for the character with code point v.
push_char(st, v) ==
    [st EXCEPT !.modified_string = Append(@, Unwrap(from_u32(v))),
               !.modified_len = @ + len_utf8(v)]

\* The locals of unescape before the loop (lines 31-35).
unescape_locals ==
    [state |-> "Normal", escape_sequence_seen |-> FALSE,
     modified_string |-> << >>, modified_len |-> 0, unicode_value |-> 0]

\* normal that copies the text before the backslash at every backslash.
normal_copies_again(input, index, c, st) ==
    IF c = "\\"
    THEN Ok([(IF index > 0 THEN push(st, Slice(input, 0, index)) ELSE st)
                EXCEPT !.escape_sequence_seen = TRUE, !.state = "Escape"])
    ELSE Ok(IF st.escape_sequence_seen THEN push(st, <<c>>) ELSE st)

\* State::Normal (lines 39-57).
normal(input, index, c, st) ==
    IF c = "\\"
    THEN Ok([(IF ~ st.escape_sequence_seen /\ index > 0
              THEN push(st, Slice(input, 0, index)) ELSE st)
                EXCEPT !.escape_sequence_seen = TRUE, !.state = "Escape"])
    ELSE Ok(IF st.escape_sequence_seen THEN push(st, <<c>>) ELSE st)

\* State::Escape (lines 58-72).  The arms of the six one-character escapes
\* push the character and leave state as it is.
escape(input, index, c, st) ==
    CASE c = "t"  -> Ok(push(st, <<"\t">>))
      [] c = "\\" -> Ok(push(st, <<"\\">>))
      [] c = "\"" -> Ok(push(st, <<"\"">>))
      [] c = "'"  -> Ok(push(st, <<"'">>))
      [] c = "n"  -> Ok(push(st, <<"\n">>))
      [] c = "r"  -> Ok(push(st, <<"\r">>))
      [] c = "u"  -> Ok([st EXCEPT !.state = "StartUnicode"])
      [] OTHER    -> Err(BadEscape(parsed_portion(input, index), c))

\* State::StartUnicode (lines 74-83).
start_unicode(input, index, c, st) ==
    IF c # "{" THEN Err(MissingOpenBrace(parsed_portion(input, index), c))
    ELSE Ok([st EXCEPT !.unicode_value = 0, !.state = "InUnicode"])

\* in_unicode that accepts one more digit before it finds the value too
\* large.
in_unicode_late_check(input, index, c, st) ==
    IF c = "}"
    THEN IF from_u32(st.unicode_value) = None
         THEN Err(InvalidUnicodeValue(parsed_portion(input, index), "}"))
         ELSE Ok([push_char(st, st.unicode_value) EXCEPT !.state = "Normal"])
    ELSE IF to_digit(c) = None
    THEN Err(NonHexDigit(parsed_portion(input, index), c))
    ELSE LET value == st.unicode_value * 16 + Unwrap(to_digit(c))
         IN  IF value > MaxCodePoint * 16
             THEN Err(HexValueTooLarge(parsed_portion(input, index), c))
             ELSE Ok([st EXCEPT !.unicode_value = value])

\* State::InUnicode (lines 85-121).  unicode_value is a u32; the model
\* computes the shift and the sum without wrapping.
in_unicode(input, index, c, st) ==
    IF c = "}"
    THEN IF from_u32(st.unicode_value) = None
         THEN Err(InvalidUnicodeValue(parsed_portion(input, index), "}"))
         ELSE Ok([push_char(st, st.unicode_value) EXCEPT !.state = "Normal"])
    ELSE IF to_digit(c) = None
    THEN Err(NonHexDigit(parsed_portion(input, index), c))
    ELSE LET value == st.unicode_value * 16 + Unwrap(to_digit(c))
         IN  IF value > MaxCodePoint
             THEN Err(HexValueTooLarge(parsed_portion(input, index), c))
             ELSE Ok([st EXCEPT !.unicode_value = value])

\* One step of the loop of unescape: match state (lines 38-122) for the
\* character at index.
unescape_step(input, index, st) ==
    LET c == input[index + 1]
    IN  CASE st.state = "Normal"       -> normal(input, index, c, st)
          [] st.state = "Escape"       -> escape(input, index, c, st)
          [] st.state = "StartUnicode" -> start_unicode(input, index, c, st)
          [] st.state = "InUnicode"    -> in_unicode(input, index, c, st)

\* The loop of unescape (lines 37-123) from the character at index on.
RECURSIVE unescape_loop(_, _, _)
unescape_loop(input, index, st) ==
    IF index = Len(input) THEN Ok(st)
    ELSE LET r == unescape_step(input, index, st)
         IN  IF r.ok THEN unescape_loop(input, index + 1, r.val) ELSE r

\* unescape: Ok(the decoded string) or Err(an UnescapeError).
unescape(input) ==
    LET r == unescape_loop(input, 0, unescape_locals)
    IN  IF ~ r.ok THEN r
        ELSE IF r.val.escape_sequence_seen THEN Ok(r.val.modified_string)
        ELSE Ok(input)

---------------------------------------------------------------------------
(***************************************************************************)
(* CharSubMachine::_flush_substitution.  `failed` records an unwrap() on   *)
(* an absent value (a panic).                                              *)
(***************************************************************************)
\* flush_walk that keeps the end of the first prefix that completes a rule
\* instead of the end of the longest.
RECURSIVE flush_walk_first(_, _, _, _)
flush_walk_first(t, input, loc, st) ==
    IF loc >= Len(input) \/ st.failed THEN st
    ELSE LET ch == input[loc + 1]
             child == Append(st.curr_node, ch)
         IN  IF ~ contains_key(t, st.curr_node, ch)
             THEN [st EXCEPT !.failed = TRUE]
             ELSE flush_walk_first(t, input, loc + 1,
                    IF IsSome(t[child]) /\ st.end_of_mapping = 0
                    THEN [st EXCEPT !.curr_node = child, !.end_of_mapping = loc + 1]
                    ELSE [st EXCEPT !.curr_node = child])

\* The for loop of _flush_substitution, from character offset loc on.
RECURSIVE flush_walk(_, _, _, _)
flush_walk(t, input, loc, st) ==
    IF loc >= Len(input) \/ st.failed THEN st
    ELSE LET ch == input[loc + 1]
             child == Append(st.curr_node, ch)
         IN  IF ~ contains_key(t, st.curr_node, ch)
             THEN [st EXCEPT !.failed = TRUE]
             ELSE flush_walk(t, input, loc + 1,
                    IF IsSome(t[child])
                    THEN [st EXCEPT !.curr_node = child, !.in_substitution = TRUE]
                    ELSE IF st.in_substitution
                    THEN [st EXCEPT !.curr_node = child, !.end_of_mapping = loc,
                                    !.in_substitution = FALSE]
                    ELSE [st EXCEPT !.curr_node = child])

\* end_of_mapping that ends the mapping one character early.
end_of_mapping_short(input, w) ==
    IF w.in_substitution THEN Len(input)
    ELSE IF w.end_of_mapping > 1 THEN w.end_of_mapping - 1
    ELSE w.end_of_mapping

\* The value of end_of_mapping after the loop (lines 210-212).
end_of_mapping(input, w) ==
    IF w.in_substitution THEN Len(input) ELSE w.end_of_mapping

\* _flush_substitution that, where no prefix of the input is a rule input,
\* applies the rule with the empty input if there is one.
RECURSIVE flush_substitution_empty_rule(_, _)
flush_substitution_empty_rule(t, input) ==
    LET w == flush_walk(t, input, 0,
                 [curr_node |-> Root, end_of_mapping |-> 0,
                  in_substitution |-> FALSE, failed |-> FALSE])
        eom == end_of_mapping(input, w)
    IN  IF w.failed THEN [sub |-> << >>, rem |-> None, failed |-> TRUE]
        ELSE IF IsSome(t[w.curr_node])
        THEN [sub |-> Unwrap(t[w.curr_node]), rem |-> None, failed |-> FALSE]
        ELSE IF eom = 0
        THEN [sub |-> (IF IsSome(t[Root]) THEN Unwrap(t[Root]) ELSE << >>) \o input,
              rem |-> None, failed |-> FALSE]
        ELSE LET r == flush_substitution_empty_rule(t, Slice(input, 0, eom))
             IN  [sub |-> r.sub,
                  rem |-> Some(Slice(input, eom, Len(input))),
                  failed |-> r.failed]

\* Returns (substitution, remainder): .sub and .rem.
RECURSIVE _flush_substitution(_, _)
_flush_substitution(t, input) ==
    LET w == flush_walk(t, input, 0,
                 [curr_node |-> Root, end_of_mapping |-> 0,
                  in_substitution |-> FALSE, failed |-> FALSE])
        eom == end_of_mapping(input, w)
    IN  IF w.failed THEN [sub |-> << >>, rem |-> None, failed |-> TRUE]
        ELSE IF IsSome(t[w.curr_node])
        THEN [sub |-> Unwrap(t[w.curr_node]), rem |-> None, failed |-> FALSE]
        ELSE IF eom = 0
        THEN [sub |-> input, rem |-> None, failed |-> FALSE]
        ELSE LET r == _flush_substitution(t, Slice(input, 0, eom))
             IN  [sub |-> r.sub,
                  rem |-> Some(Slice(input, eom, Len(input))),
                  failed |-> r.failed]

---------------------------------------------------------------------------
(***************************************************************************)
(* CharSubMachine::process.  The loop state is the code's locals; `events` *)
(* is a history of the candidates the call resolved: where each began and  *)
(* ended in the effective input and what was emitted for it.               *)
(***************************************************************************)
\* built_value.as_mut().unwrap().push_str(s)
push_str(st, s) ==
    IF IsSome(st.built_value)
    THEN [st EXCEPT !.built_value = Some(Unwrap(st.built_value) \o s)]
    ELSE [st EXCEPT !.failed = TRUE]

\* dead_end without the return of curr_node to the trie root.
dead_end_no_reset(t, input, loc, st) ==
    LET emitted ==
            IF IsSome(t[st.curr_node]) THEN [text |-> Unwrap(t[st.curr_node]), failed |-> FALSE]
            ELSE LET r == _flush_substitution(t, Slice(input, st.substitution_start, loc))
                 IN  [text |-> r.sub \o (IF IsSome(r.rem) THEN Unwrap(r.rem) ELSE << >>),
                      failed |-> r.failed]
        pushed == push_str(st, emitted.text)
    IN  [pushed EXCEPT !.failed = pushed.failed \/ emitted.failed,
                       !.in_substitution = FALSE,
                       !.events = Append(st.events,
                                    [kind |-> "dead_end", start |-> st.substitution_start,
                                     stop |-> loc, emit |-> emitted.text])]

\* dead_end that emits the substitution without the remainder.
dead_end_drops_remainder(t, input, loc, st) ==
    LET emitted ==
            IF IsSome(t[st.curr_node]) THEN [text |-> Unwrap(t[st.curr_node]), failed |-> FALSE]
            ELSE LET r == _flush_substitution(t, Slice(input, st.substitution_start, loc))
                 IN  [text |-> r.sub, failed |-> r.failed]
        pushed == push_str(st, emitted.text)
    IN  [pushed EXCEPT !.failed = pushed.failed \/ emitted.failed,
                       !.in_substitution = FALSE,
                       !.curr_node = Root,
                       !.events = Append(st.events,
                                    [kind |-> "dead_end", start |-> st.substitution_start,
                                     stop |-> loc, emit |-> emitted.text])]

\* Lines 100-124: the candidate cannot be extended by ch.
dead_end(t, input, loc, st) ==
    LET emitted ==
            IF IsSome(t[st.curr_node]) THEN [text |-> Unwrap(t[st.curr_node]), failed |-> FALSE]
            ELSE LET r == _flush_substitution(t, Slice(input, st.substitution_start, loc))
                 IN  [text |-> r.sub \o (IF IsSome(r.rem) THEN Unwrap(r.rem) ELSE << >>),
                      failed |-> r.failed]
        pushed == push_str(st, emitted.text)
    IN  [pushed EXCEPT !.failed = pushed.failed \/ emitted.failed,
                       !.in_substitution = FALSE,
                       !.curr_node = Root,
                       !.events = Append(st.events,
                                    [kind |-> "dead_end", start |-> st.substitution_start,
                                     stop |-> loc, emit |-> emitted.text])]

\* descend_or_copy that starts built_value empty, without the text before
\* the first candidate.
descend_or_copy_no_prefix(t, input, loc, st) ==
    LET ch == input[loc + 1]
    IN  IF contains_key(t, st.curr_node, ch)
        THEN [st EXCEPT !.built_value =
                            IF st.built_value = None THEN Some(<< >>)
                            ELSE st.built_value,
                        !.substitution_start =
                            IF ~ st.in_substitution THEN loc ELSE st.substitution_start,
                        !.in_substitution = TRUE,
                        !.curr_node = Append(st.curr_node, ch)]
        ELSE IF IsSome(st.built_value)
        THEN [st EXCEPT !.built_value = Some(Append(Unwrap(st.built_value), ch))]
        ELSE st

\* Lines 125-142: descend into the child of ch, or copy ch.
descend_or_copy(t, input, loc, st) ==
    LET ch == input[loc + 1]
    IN  IF contains_key(t, st.curr_node, ch)
        THEN [st EXCEPT !.built_value =
                            IF st.built_value = None THEN Some(Slice(input, 0, loc))
                            ELSE st.built_value,
                        !.substitution_start =
                            IF ~ st.in_substitution THEN loc ELSE st.substitution_start,
                        !.in_substitution = TRUE,
                        !.curr_node = Append(st.curr_node, ch)]
        ELSE IF IsSome(st.built_value)
        THEN [st EXCEPT !.built_value = Some(Append(Unwrap(st.built_value), ch))]
        ELSE st

\* The for loop of process (lines 99-143), from character offset loc on.
RECURSIVE process_loop(_, _, _, _)
process_loop(t, input, loc, st) ==
    IF loc >= Len(input) \/ st.failed THEN st
    ELSE LET ch == input[loc + 1]
             s1 == IF st.in_substitution /\ ~ contains_key(t, st.curr_node, ch)
                   THEN dead_end(t, input, loc, st)
                   ELSE st
         IN  process_loop(t, input, loc + 1, descend_or_copy(t, input, loc, s1))

\* end_of_chunk that emits the output of a node that completes a rule
\* although the node has children.
end_of_chunk_eager(t, input, st) ==
    IF ~ st.in_substitution \/ st.failed
    THEN [st |-> st, unprocessed |-> None]
    ELSE IF children_is_empty(t, st.curr_node) \/ IsSome(t[st.curr_node])
    THEN IF IsSome(t[st.curr_node])
         THEN [st |-> [push_str(st, Unwrap(t[st.curr_node])) EXCEPT
                          !.events = Append(st.events,
                                       [kind |-> "leaf", start |-> st.substitution_start,
                                        stop |-> Len(input),
                                        emit |-> Unwrap(t[st.curr_node])])],
               unprocessed |-> None]
         ELSE [st |-> [st EXCEPT !.failed = TRUE], unprocessed |-> None]
    ELSE [st |-> st,
          unprocessed |-> Some(Slice(input, st.substitution_start, Len(input)))]

\* end_of_chunk that unwraps the node's output before it looks at the
\* node's children.
end_of_chunk_unwrap_first(t, input, st) ==
    IF ~ st.in_substitution \/ st.failed
    THEN [st |-> st, unprocessed |-> None]
    ELSE IF t[st.curr_node] = None
    THEN [st |-> [st EXCEPT !.failed = TRUE], unprocessed |-> None]
    ELSE IF children_is_empty(t, st.curr_node)
    THEN [st |-> [push_str(st, Unwrap(t[st.curr_node])) EXCEPT
                     !.events = Append(st.events,
                                  [kind |-> "leaf", start |-> st.substitution_start,
                                   stop |-> Len(input),
                                   emit |-> Unwrap(t[st.curr_node])])],
          unprocessed |-> None]
    ELSE [st |-> st,
          unprocessed |-> Some(Slice(input, st.substitution_start, Len(input)))]

\* end_of_chunk that buffers the whole input instead of the candidate.
end_of_chunk_whole_input(t, input, st) ==
    IF ~ st.in_substitution \/ st.failed
    THEN [st |-> st, unprocessed |-> None]
    ELSE IF children_is_empty(t, st.curr_node)
    THEN IF IsSome(t[st.curr_node])
         THEN [st |-> [push_str(st, Unwrap(t[st.curr_node])) EXCEPT
                          !.events = Append(st.events,
                                       [kind |-> "leaf", start |-> st.substitution_start,
                                        stop |-> Len(input),
                                        emit |-> Unwrap(t[st.curr_node])])],
               unprocessed |-> None]
         ELSE [st |-> [st EXCEPT !.failed = TRUE], unprocessed |-> None]
    ELSE [st |-> st, unprocessed |-> Some(input)]

\* end_of_chunk that buffers the candidate whether or not its node has
\* children.
end_of_chunk_always_buffers(t, input, st) ==
    IF ~ st.in_substitution \/ st.failed
    THEN [st |-> st, unprocessed |-> None]
    ELSE [st |-> st,
          unprocessed |-> Some(Slice(input, st.substitution_start, Len(input)))]

\* Lines 144-153: the scan ended inside a candidate.
end_of_chunk(t, input, st) ==
    IF ~ st.in_substitution \/ st.failed
    THEN [st |-> st, unprocessed |-> None]
    ELSE IF children_is_empty(t, st.curr_node)
    THEN IF IsSome(t[st.curr_node])
         THEN [st |-> [push_str(st, Unwrap(t[st.curr_node])) EXCEPT
                          !.events = Append(st.events,
                                       [kind |-> "leaf", start |-> st.substitution_start,
                                        stop |-> Len(input),
                                        emit |-> Unwrap(t[st.curr_node])])],
               unprocessed |-> None]
         ELSE [st |-> [st EXCEPT !.failed = TRUE], unprocessed |-> None]
    ELSE [st |-> st,
          unprocessed |-> Some(Slice(input, st.substitution_start, Len(input)))]

\* returned without the no_change case: an empty string when nothing was
\* built.
returned_built_only(chunk, st) ==
    IF st.built_value = None THEN << >> ELSE Unwrap(st.built_value)

\* The text process hands back (lines 154-157): the chunk itself when
\* nothing was built.
returned(chunk, st) ==
    IF st.built_value = None THEN chunk ELSE Unwrap(st.built_value)

\* process that takes the unprocessed buffer and does not prepend it.
process_drops_unprocessed(t, unproc, chunk) ==
    LET input == chunk
        st0 == [curr_node |-> Root,
                built_value |-> IF IsSome(unproc) THEN Some(<< >>) ELSE None,
                in_substitution |-> FALSE,
                substitution_start |-> 0,
                failed |-> FALSE,
                events |-> << >>]
        scanned == process_loop(t, input, 0, st0)
        e == end_of_chunk(t, input, scanned)
    IN  [out |-> returned(chunk, e.st),
         unprocessed |-> e.unprocessed,
         failed |-> e.st.failed,
         events |-> e.st.events,
         input |-> input,
         scanned |-> scanned]

\* process(chunk) on an engine with trie t and the given unprocessed buffer.
process(t, unproc, chunk) ==
    LET input == IF IsSome(unproc) THEN Unwrap(unproc) \o chunk ELSE chunk
        st0 == [curr_node |-> Root,
                built_value |-> IF IsSome(unproc) THEN Some(<< >>) ELSE None,
                in_substitution |-> FALSE,
                substitution_start |-> 0,
                failed |-> FALSE,
                events |-> << >>]
        scanned == process_loop(t, input, 0, st0)
        e == end_of_chunk(t, input, scanned)
    IN  [out |-> returned(chunk, e.st),
         unprocessed |-> e.unprocessed,
         failed |-> e.st.failed,
         events |-> e.st.events,
         input |-> input,
         scanned |-> scanned]

\* flush that returns the substitution without the remainder.
flush_no_remainder(t, unproc) ==
    IF unproc = None
    THEN [out |-> << >>, unprocessed |-> None, failed |-> FALSE, events |-> << >>]
    ELSE LET r == _flush_substitution(t, Unwrap(unproc))
         IN  [out |-> r.sub, unprocessed |-> None, failed |-> r.failed,
              events |-> <<[kind |-> "flush", start |-> 0,
                            stop |-> Len(Unwrap(unproc)), emit |-> r.sub]>>]

\* flush that reads the unprocessed buffer without taking it.
flush_keeps_unprocessed(t, unproc) ==
    IF unproc = None
    THEN [out |-> << >>, unprocessed |-> None, failed |-> FALSE, events |-> << >>]
    ELSE LET r == _flush_substitution(t, Unwrap(unproc))
             text == r.sub \o (IF IsSome(r.rem) THEN Unwrap(r.rem) ELSE << >>)
         IN  [out |-> text, unprocessed |-> unproc, failed |-> r.failed,
              events |-> <<[kind |-> "flush", start |-> 0,
                            stop |-> Len(Unwrap(unproc)), emit |-> text]>>]

\* flush() on an engine with trie t and the given unprocessed buffer.
flush(t, unproc) ==
    IF unproc = None
    THEN [out |-> << >>, unprocessed |-> None, failed |-> FALSE, events |-> << >>]
    ELSE LET r == _flush_substitution(t, Unwrap(unproc))
             text == r.sub \o (IF IsSome(r.rem) THEN Unwrap(r.rem) ELSE << >>)
         IN  [out |-> text, unprocessed |-> None, failed |-> r.failed,
              events |-> <<[kind |-> "flush", start |-> 0,
                            stop |-> Len(Unwrap(unproc)), emit |-> text]>>]

---------------------------------------------------------------------------
(***************************************************************************)
(* The engine as a state machine.                                          *)
(*   trie, unprocessed : the fields of CharSubMachine                      *)
(*   failed            : a call has panicked (an unwrap() on None)         *)
(* History variables, written by the calls and read by no guard:           *)
(*   last  : the last call: its arguments, the buffer it found, what it    *)
(*           returned, the candidates it resolved and the loop state at    *)
(*           the end of its scan                                           *)
(*   idle  : None after a process call and before the first flush;         *)
(*           otherwise Some(what the last flush returned)                  *)
(*   phase, fed, acc, split : a run of process calls ended by a flush      *)
(*           ("build" before the first process call, "run" during a run,   *)
(*           "flushed" right after its flush): fed is the concatenation of *)
(*           the run's chunks, acc the concatenation of what its calls     *)
(*           returned, split whether some call of the run began with a     *)
(*           buffered candidate and was given a nonempty chunk             *)
(*   registry : the inputs registered so far (by the mapping file and by   *)
(*           the add_substitution calls of Spec), each with the output of  *)
(*           the most recent registration                                  *)
(*   arg, ret : the argument and the result (None before the call) of the  *)
(*           call of LoadSpec (from_buf_reader on a config file) and of    *)
(*           UnescapeSpec (unescape on a string)                           *)
(***************************************************************************)
VARIABLES trie, unprocessed, failed, last, idle, phase, fed, acc, split,
          registry, arg, ret

vars == <<trie, unprocessed, failed, last, idle, phase, fed, acc, split,
          registry, arg, ret>>

NoScan ==
    [curr_node |-> Root, built_value |-> None, in_substitution |-> FALSE,
     substitution_start |-> 0, failed |-> FALSE, events |-> << >>]

NoCall ==
    [op |-> "new", chunk |-> << >>, pending |-> None, out |-> << >>,
     events |-> << >>, effective |-> << >>, scanned |-> NoScan,
     notice |-> FALSE, registered |-> FALSE, idle |-> None]

\* The registry after one more registration.
Register(reg, input, output) ==
    [i \in DOMAIN reg \cup {input} |-> IF i = input THEN output ELSE reg[i]]

\* The registry a mapping file leaves: its mapping lines, in order.
RECURSIVE FileRegistry(_)
FileRegistry(lines) ==
    IF lines = << >> THEN << >>
    ELSE LET n == Len(lines)
             words == split_whitespace(lines[n])
         IN  Register(FileRegistry(SubSeq(lines, 1, n - 1)), words[1], words[2])

\* A newly constructed engine: CharSubMachine::new(), or
\* CharSubMachine::from_buf_reader on one of the mapping files.
Init ==
    /\ \E f \in RuleFiles : /\ trie = from_buf_reader(f).val
                            /\ registry = FileRegistry(f)
    /\ unprocessed = None
    /\ failed = FALSE
    /\ last = NoCall
    /\ idle = None
    /\ phase = "build"
    /\ fed = << >>
    /\ acc = << >>
    /\ split = FALSE
    /\ arg = << >>
    /\ ret = None

RuleCount(t) == Cardinality({n \in DOMAIN t : IsSome(t[n])})

\* The effect of add_substitution(input, output) on the engine.
add_substitution(input, output) ==
    /\ ~ failed
    /\ RuleCount(trie) < MaxRules \/ add_overwrites(trie, input)
    /\ trie' = add(trie, input, output)
    /\ UNCHANGED <<unprocessed, failed>>

\* process(chunk) that also registers the chunk as a rule input.
process_call_registers(chunk) ==
    /\ ~ failed
    /\ unprocessed' = process(trie, unprocessed, chunk).unprocessed
    /\ failed' = process(trie, unprocessed, chunk).failed
    /\ trie' = add(trie, chunk, process(trie, unprocessed, chunk).out)

\* The effect of process(chunk) on the engine.
process_call(chunk) ==
    /\ ~ failed
    /\ unprocessed' = process(trie, unprocessed, chunk).unprocessed
    /\ failed' = process(trie, unprocessed, chunk).failed
    /\ UNCHANGED trie

\* The effect of flush() on the engine.
flush_call ==
    /\ ~ failed
    /\ unprocessed' = flush(trie, unprocessed).unprocessed
    /\ failed' = flush(trie, unprocessed).failed
    /\ UNCHANGED trie

(***************************************************************************)
(* Spec: any interleaving of add_substitution, process and flush calls.    *)
(***************************************************************************)
AddSubstitution(input, output) ==
    /\ add_substitution(input, output)
    /\ last' = [NoCall EXCEPT !.op = "add", !.pending = unprocessed,
                              !.notice = add_overwrites(trie, input),
                              !.registered = (input \in DOMAIN registry),
                              !.idle = idle]
    /\ registry' = Register(registry, input, output)
    /\ UNCHANGED <<idle, phase, fed, acc, split, arg, ret>>

Process(chunk) ==
    /\ process_call(chunk)
    /\ LET r == process(trie, unprocessed, chunk)
       IN  last' = [NoCall EXCEPT !.op = "process", !.chunk = chunk,
                                  !.pending = unprocessed, !.out = r.out,
                                  !.events = r.events, !.effective = r.input,
                                  !.scanned = r.scanned, !.idle = idle]
    /\ idle' = None
    /\ UNCHANGED <<phase, fed, acc, split, registry, arg, ret>>

Flush ==
    /\ flush_call
    /\ LET r == flush(trie, unprocessed)
       IN  last' = [NoCall EXCEPT !.op = "flush", !.pending = unprocessed,
                                  !.out = r.out, !.events = r.events,
                                  !.effective = IF IsSome(unprocessed)
                                                THEN Unwrap(unprocessed) ELSE << >>,
                                  !.idle = idle]
    /\ idle' = Some(flush(trie, unprocessed).out)
    /\ UNCHANGED <<phase, fed, acc, split, registry, arg, ret>>

Next ==
    \/ \E input \in RuleInputs, output \in Outputs : AddSubstitution(input, output)
    \/ \E chunk \in Chunks : Process(chunk)
    \/ Flush

Spec == Init /\ [][Next]_vars

(***************************************************************************)
(* RunSpec: the documented use.  The rules are registered first; then the  *)
(* text is fed in chunks and the run is ended by a flush, after which a    *)
(* new run may begin.                                                      *)
(***************************************************************************)
RunAdd(input, output) ==
    /\ phase = "build"
    /\ add_substitution(input, output)
    /\ UNCHANGED <<last, idle, phase, fed, acc, split, registry, arg, ret>>

RunProcess(chunk) ==
    /\ Len(IF phase = "run" THEN fed ELSE << >>) + Len(chunk) <= MaxText
    /\ process_call(chunk)
    /\ phase' = "run"
    /\ fed' = (IF phase = "run" THEN fed ELSE << >>) \o chunk
    /\ acc' = (IF phase = "run" THEN acc ELSE << >>)
                  \o process(trie, unprocessed, chunk).out
    /\ split' = ((phase = "run" /\ split) \/ (IsSome(unprocessed) /\ chunk # << >>))
    /\ UNCHANGED <<last, idle, registry, arg, ret>>

RunFlush ==
    /\ phase = "run"
    /\ flush_call
    /\ phase' = "flushed"
    /\ acc' = acc \o flush(trie, unprocessed).out
    /\ UNCHANGED <<fed, split, last, idle, registry, arg, ret>>

RunNext ==
    \/ \E input \in RuleInputs, output \in Outputs : RunAdd(input, output)
    \/ \E chunk \in RunChunks : RunProcess(chunk)
    \/ RunFlush

RunSpec == Init /\ [][RunNext]_vars

(***************************************************************************)
(* IdentitySpec: RunSpec for engines all of whose rules map their input to *)
(* itself.                                                                 *)
(***************************************************************************)
\* Mapping files whose rules map their input to itself: the inputs of
\* RuleFiles.
IdentityFiles ==
    { << >>,
      << <<"A", " ", "A">>, <<"A", "B", " ", "A", "B">>,
         <<"A", "B", "A", "B", " ", "A", "B", "A", "B">> >>,
      << <<"A", " ", "A">>, <<"A", "A", " ", "A", "A">>,
         <<"A", "A", "A", "B", " ", "A", "A", "A", "B">> >>,
      << <<"A", "B", "A", "A", " ", "A", "B", "A", "A">>,
         <<"A", "B", " ", "A", "B">>, <<"B", " ", "B">> >>,
      << <<"A", " ", "A">>, <<"A", "B", "A", " ", "A", "B", "A">>,
         <<"A", "B", "A", "B", "B", " ", "A", "B", "A", "B", "B">> >> }

IdentityInit ==
    /\ \E f \in IdentityFiles : /\ trie = from_buf_reader(f).val
                                /\ registry = FileRegistry(f)
    /\ unprocessed = None
    /\ failed = FALSE
    /\ last = NoCall
    /\ idle = None
    /\ phase = "build"
    /\ fed = << >>
    /\ acc = << >>
    /\ split = FALSE
    /\ arg = << >>
    /\ ret = None

\* add_substitution(input, input)
RunAddIdentity(input) == RunAdd(input, input)

IdentityNext ==
    \/ \E input \in RuleInputs : RunAddIdentity(input)
    \/ \E chunk \in RunChunks : RunProcess(chunk)
    \/ RunFlush

IdentitySpec == IdentityInit /\ [][IdentityNext]_vars

(***************************************************************************)
(* LoadSpec: CharSubMachine::from_buf_reader on a config file.             *)
(* UnescapeSpec: unescape on a string.                                     *)
(***************************************************************************)
\* The concatenations of at most n pieces of P.
RECURSIVE Concats(_, _)
Concats(P, n) ==
    IF n = 0 THEN {<< >>}
    ELSE LET shorter == Concats(P, n - 1)
         IN  shorter \cup {s \o piece : s \in shorter, piece \in P}

\* What config lines are made of: the three whitespace characters, an
\* ordinary character (the straight quote), the escape notation of U+2019
\* and an invalid escape code.
LinePieces ==
    { <<" ">>, <<"\t">>, <<NBSP>>, <<"'">>,
      <<"\\", "u", "{", "2", "0", "1", "9", "}">>, <<"\\", "q">> }

\* The config lines of at most n pieces.
ConfigLines(n) == Concats(LinePieces, n)

\* The config files: one line of at most n pieces, alone, after one mapping
\* line, before one, or between two.
ConfigFiles(n) ==
    {before \o <<line>> \o after :
        before \in {<< >>, << <<"B", " ", "x">> >>},
        line \in ConfigLines(n),
        after \in {<< >>, << <<"A", " ", "y">> >>}}

\* What the strings given to unescape are made of: an ordinary character,
\* the backslash, the escape of the tab, the other characters that make a
\* one-character escape (two letters, the quotes, the backslash), the
\* parts of the \u{...} notation, and the hex digits of U+0041, of a
\* surrogate and of the largest code point.
UnescapePieces ==
    { <<"q">>, <<"\\">>, <<"\\", "t">>, <<"n">>, <<"r">>, <<"'">>, <<"\"">>,
      <<"u">>, <<"{">>, <<"}">>, <<"\\", "u", "{">>,
      <<"4", "1">>, <<"D", "8", "0", "0">>, <<"1", "0", "F", "F", "F", "F">> }

\* The strings of at most n pieces.
UnescapeInputs(n) == Concats(UnescapePieces, n)

\* No engine in use: the variables of the engine and of its history as
\* they are for a new engine.
NoEngine ==
    /\ trie = SubstitutionTrie_new
    /\ unprocessed = None
    /\ failed = FALSE
    /\ last = NoCall
    /\ idle = None
    /\ phase = "build"
    /\ fed = << >>
    /\ acc = << >>
    /\ split = FALSE
    /\ registry = << >>

LoadInit ==
    /\ NoEngine
    /\ arg \in ConfigFiles(MaxLinePieces)
    /\ ret = None

\* from_buf_reader(arg): the result, and the trie of the engine if it
\* returned one.
FromBufReader ==
    /\ ret = None
    /\ ret' = Some(from_buf_reader(arg))
    /\ trie' = IF from_buf_reader(arg).ok THEN from_buf_reader(arg).val ELSE trie
    /\ UNCHANGED <<unprocessed, failed, last, idle, phase, fed, acc, split,
                   registry, arg>>

LoadNext == FromBufReader

LoadSpec == LoadInit /\ [][LoadNext]_vars

UnescapeInit ==
    /\ NoEngine
    /\ arg \in UnescapeInputs(MaxPieces)
    /\ ret = None

\* unescape(arg)
Unescape ==
    /\ ret = None
    /\ ret' = Some(unescape(arg))
    /\ UNCHANGED <<trie, unprocessed, failed, last, idle, phase, fed, acc, split,
                   registry, arg>>

UnescapeNext == Unescape

UnescapeSpec == UnescapeInit /\ [][UnescapeNext]_vars

---------------------------------------------------------------------------
(***************************************************************************)
(* Vocabulary of the properties.  A rule is a nonempty input sequence      *)
(* whose node carries an output: a candidate always holds at least one     *)
(* character, so the empty sequence is never matched against the text.     *)
(***************************************************************************)
IsRule(t, s) == s # << >> /\ s \in DOMAIN t /\ IsSome(t[s])

RuleOutput(t, s) == Unwrap(t[s])

Longest(K) == CHOOSE k \in K : \A j \in K : j <= k

\* The lengths of the rule inputs that are prefixes of text, up to length n.
RulePrefixes(t, text, n) == {k \in 1..n : IsRule(t, SubSeq(text, 1, k))}

\* The left-to-right scan that replaces, at each position, the longest rule
\* input that is a prefix of the remaining text and otherwise copies one
\* character.
RECURSIVE RefScan(_, _)
RefScan(t, text) ==
    IF text = << >> THEN << >>
    ELSE LET K == RulePrefixes(t, text, Len(text))
         IN  IF K = {} THEN <<text[1]>> \o RefScan(t, Tail(text))
             ELSE RuleOutput(t, SubSeq(text, 1, Longest(K)))
                      \o RefScan(t, SubSeq(text, Longest(K) + 1, Len(text)))

\* process(text) ++ flush() on a fresh engine with trie t.
WholeRun(t, text) ==
    process(t, None, text).out \o flush(t, process(t, None, text).unprocessed).out

---------------------------------------------------------------------------
\* C1 (chunking invariance): when a run of process calls on chunks c1..cn
\* has been ended by flush, the concatenation of everything the calls and
\* the flush returned equals process(c1 ++ ... ++ cn) ++ flush() on a fresh
\* engine with the same rules.
C1_ChunkingInvariance ==
    phase = "flushed" => acc = WholeRun(trie, fed)

\* A finished run in which a candidate was carried over a chunk boundary and
\* a substitution was made.
C1_Witness ==
    /\ phase = "flushed"
    /\ split
    /\ acc # fed
    /\ acc = WholeRun(trie, fed)

\* C2 (every occurrence is replaced, longest first): with rules of nonempty
\* inputs, what a finished run returned equals the reference scan of its
\* text.
C2_EveryOccurrenceLongestFirst ==
    (phase = "flushed" /\ trie[Root] = None) => acc = RefScan(trie, fed)

---------------------------------------------------------------------------
\* The candidates the last call resolved, and the text they lie in.
Resolved == 1..Len(last.events)

Candidate(e) == Slice(last.effective, e.start, e.stop)

\* The text from the start of candidate e to the end of the call's input.
TextFrom(e) == Slice(last.effective, e.start, Len(last.effective))

\* C3 (longest-match preference at a candidate start): for every candidate
\* the last process or flush call resolved, if some rule input is a prefix
\* of the text from the candidate's start, what was emitted for the
\* candidate is the output of the longest such rule, followed by the
\* candidate's characters past that rule input.
C3_LongestMatchAtCandidateStart ==
    \A i \in Resolved :
        LET e == last.events[i]
            K == RulePrefixes(trie, TextFrom(e), Len(TextFrom(e)))
        IN  K # {} =>
                e.emit = RuleOutput(trie, SubSeq(TextFrom(e), 1, Longest(K)))
                            \o SubSeq(Candidate(e), Longest(K) + 1, Len(Candidate(e)))

\* A dead-ended candidate that is no rule input itself and has two shorter
\* rule inputs as prefixes.
C3_Witness ==
    \E i \in Resolved :
        LET e == last.events[i]
        IN  /\ e.kind = "dead_end"
            /\ ~ IsRule(trie, Candidate(e))
            /\ Cardinality(RulePrefixes(trie, TextFrom(e), Len(TextFrom(e)))) >= 2

\* The loop state at the end of the last process call's scan.
Scanned == last.scanned

\* C4 (end-of-chunk buffering): when the scan of a process call ends inside
\* a candidate whose node has a child, the call returns what the scan had
\* built and pending is the candidate; when the node has no child, the call
\* returns that followed by the node's output and pending is absent; when
\* the scan ends outside a candidate, pending is absent.
C4_EndOfChunkBuffering ==
    last.op = "process" =>
        /\ (Scanned.in_substitution /\ ~ children_is_empty(trie, Scanned.curr_node)) =>
              /\ unprocessed = Some(Slice(last.effective, Scanned.substitution_start,
                                          Len(last.effective)))
              /\ last.out = Unwrap(Scanned.built_value)
        /\ (Scanned.in_substitution /\ children_is_empty(trie, Scanned.curr_node)) =>
              /\ unprocessed = None
              /\ last.out = Unwrap(Scanned.built_value)
                                \o RuleOutput(trie, Scanned.curr_node)
        /\ ~ Scanned.in_substitution => unprocessed = None

\* A scan that ended on a node that completes a rule and has a child.
C4_Witness ==
    /\ last.op = "process"
    /\ last.chunk # << >>
    /\ Scanned.in_substitution
    /\ IsRule(trie, Scanned.curr_node)
    /\ ~ children_is_empty(trie, Scanned.curr_node)
    /\ IsSome(unprocessed)

\* What flush is to return for a pending candidate p.
FlushRef(t, p) ==
    IF IsRule(t, p) THEN RuleOutput(t, p)
    ELSE LET K == RulePrefixes(t, p, Len(p) - 1)
         IN  IF K = {} THEN p
             ELSE RuleOutput(t, SubSeq(p, 1, Longest(K)))
                      \o SubSeq(p, Longest(K) + 1, Len(p))

\* The rules A->a, ABC->b of the documentation of process and flush.
DocRules ==
    add(add(SubstitutionTrie_new, <<"A">>, <<"a">>), <<"A", "B", "C">>, <<"b">>)

\* C5 (flush resolution): flush() on a pending candidate p returns p's
\* output if p is a rule input, otherwise the output of the longest proper
\* prefix of p that is a rule input followed by the rest of p, otherwise p.
\* With the rules A->a, ABC->b, process("AB") returns "" and flush() "aB".
C5_FlushResolution ==
    /\ (last.op = "flush" /\ IsSome(last.pending)) =>
            last.out = FlushRef(trie, Unwrap(last.pending))
    /\ process(DocRules, None, <<"A", "B">>).out = << >>
    /\ flush(DocRules, process(DocRules, None, <<"A", "B">>).unprocessed).out
            = <<"a", "B">>

\* A flush of a pending candidate that is no rule input and has two proper
\* prefixes that are.
C5_Witness ==
    /\ last.op = "flush"
    /\ IsSome(last.pending)
    /\ ~ IsRule(trie, Unwrap(last.pending))
    /\ Cardinality(RulePrefixes(trie, Unwrap(last.pending),
                                Len(Unwrap(last.pending)) - 1)) >= 2

\* Where the candidate after the i-th resolved one begins: the start of the
\* next resolved candidate, else of the candidate the scan ended in, else
\* the end of the input.
NextStart(i) ==
    IF i < Len(last.events) THEN last.events[i + 1].start
    ELSE IF Scanned.in_substitution THEN Scanned.substitution_start
    ELSE Len(last.effective)

\* The rules of the tests and of the comment on _flush_substitution.
TestRules ==
    add(add(SubstitutionTrie_new, <<"A", "B", "C">>, <<"$", "$">>),
        <<"D", "E", "F">>, <<"!", "!">>)
CommentRules ==
    add(add(SubstitutionTrie_new, <<"A", "B", "C">>, <<"d">>), <<"A">>, <<"c">>)

\* C6 (dead ends inside process): for every candidate of the last process
\* call that the next character c could not extend, the call emitted the
\* output of the longest rule input that is a prefix of the candidate
\* followed by the rest of the candidate, or the whole candidate if no
\* prefix is a rule input; and c was treated afresh from the root: a new
\* candidate begins at c exactly if the root has a child for c.  With the
\* rules ABC->$$, DEF->!!, process("ABDEF") returns "AB!!"; with ABC->d,
\* A->c, the input ABQ gives cBQ.
C6_DeadEndHandling ==
    /\ last.op = "process" =>
         \A i \in Resolved :
            LET e == last.events[i]
                cand == Candidate(e)
                K == RulePrefixes(trie, cand, Len(cand))
            IN  e.kind = "dead_end" =>
                  /\ e.stop < Len(last.effective)
                  /\ ~ contains_key(trie, cand, last.effective[e.stop + 1])
                  /\ e.emit = IF K = {} THEN cand
                              ELSE RuleOutput(trie, SubSeq(cand, 1, Longest(K)))
                                       \o SubSeq(cand, Longest(K) + 1, Len(cand))
                  /\ (NextStart(i) = e.stop)
                        <=> contains_key(trie, Root, last.effective[e.stop + 1])
    /\ process(TestRules, None, <<"A", "B", "D", "E", "F">>).out
            = <<"A", "B", "!", "!">>
    /\ WholeRun(CommentRules, <<"A", "B", "Q">>) = <<"c", "B", "Q">>

\* A dead end resolved by backtracking to a shorter rule input, with a
\* literal remainder, whose next character begins a new candidate.
C6_Witness ==
    /\ last.op = "process"
    /\ \E i \in Resolved :
          LET e == last.events[i]
              K == RulePrefixes(trie, Candidate(e), Len(Candidate(e)))
          IN  /\ e.kind = "dead_end"
              /\ K # {}
              /\ Longest(K) < Len(Candidate(e))
              /\ NextStart(i) = e.stop

NoRules == DOMAIN trie = {Root} /\ trie[Root] = None

\* C7 (no-op property): as long as no rule is registered, every process(s)
\* returns s and every flush() returns the empty string.
C7_NoRulesNoOp ==
    NoRules =>
        /\ last.op = "process" => last.out = last.chunk
        /\ last.op = "flush" => last.out = << >>
        /\ unprocessed = None

\* A nonempty chunk processed by an engine without rules, after a flush.
C7_Witness ==
    /\ NoRules
    /\ last.op = "process"
    /\ last.chunk # << >>
    /\ IsSome(last.idle)

\* No character of text is the first character of a rule input.
NoStart(t, text) == \A i \in 1..Len(text) : ~ contains_key(t, Root, text[i])

\* C8 (identity on non-matching text): a process call on an engine with no
\* pending candidate, with a chunk none of whose characters begins a rule
\* input, returns the chunk and leaves pending absent; and a flush() with
\* pending absent returns the empty string.
C8_IdentityOnNonMatchingText ==
    /\ (last.op = "process" /\ last.pending = None /\ NoStart(trie, last.chunk)) =>
          /\ last.out = last.chunk
          /\ unprocessed = None
    /\ (last.op = "flush" /\ last.pending = None) => last.out = << >>

\* A nonempty chunk without rule-starting characters, processed by an
\* engine that has rules.
C8_Witness ==
    /\ last.op = "process"
    /\ last.pending = None
    /\ last.chunk # << >>
    /\ NoStart(trie, last.chunk)
    /\ RuleCount(trie) > 0
    /\ last.out = last.chunk

\* C9 (idempotent flush): flush() leaves pending absent, and a flush() with
\* no process call since the previous flush returns the empty string.
C9_IdempotentFlush ==
    last.op = "flush" =>
        /\ unprocessed = None
        /\ IsSome(last.idle) => last.out = << >>

\* A second flush after a flush that returned buffered content.
C9_Witness ==
    /\ last.op = "flush"
    /\ IsSome(last.idle)
    /\ Unwrap(last.idle) # << >>
    /\ last.out = << >>

\* C10 (the engine never fails): no interleaving of add_substitution,
\* process and flush calls reaches an unwrap() on an absent value.
C10_NeverFails == failed = FALSE

\* A process call that met its pending candidate, on a trie that holds a
\* rule with an empty input and a rule with an empty output, and resolved a
\* dead end.
C10_Witness ==
    /\ ~ failed
    /\ last.op = "process"
    /\ IsSome(last.pending)
    /\ IsSome(trie[Root])
    /\ \E n \in DOMAIN trie : n # Root /\ trie[n] = Some(<< >>)
    /\ \E i \in Resolved : last.events[i].kind = "dead_end"

---------------------------------------------------------------------------
\* C11 (pending invariant): whatever add_substitution, process and flush
\* calls were made, pending, if present, is a nonempty string each of whose
\* prefixes is a node of the trie: consumed in order from the root, every
\* character has a matching child.
C11_PendingIsPathFromRoot ==
    IsSome(unprocessed) =>
        /\ Unwrap(unprocessed) # << >>
        /\ \A k \in 1..Len(Unwrap(unprocessed)) :
               SubSeq(Unwrap(unprocessed), 1, k) \in DOMAIN trie

\* A pending candidate of two characters that began inside the text of a
\* process call, and one that an add_substitution call found and left.
C11_Witness ==
    /\ IsSome(unprocessed)
    /\ Len(Unwrap(unprocessed)) >= 2
    /\ \/ last.op = "process" /\ Len(last.effective) > Len(Unwrap(unprocessed))
       \/ last.op = "add" /\ IsSome(last.pending)

\* C12 (root invariant): after any add calls, those with an empty input
\* included, the root of the trie has no output.
C12_RootHasNoOutput == trie[Root] = None

\* C13 (last write wins): the output stored for a registered input is the
\* output of the most recent add for that input (so a later add for another
\* input leaves it unchanged), and add gives its overwrite notice exactly
\* when its input was registered before.
C13_LastWriteWins ==
    /\ \A i \in DOMAIN registry : i \in DOMAIN trie /\ trie[i] = Some(registry[i])
    /\ last.op = "add" => (last.notice <=> last.registered)

\* An add that gave the notice, with another input registered as well, on a
\* trie that holds both an empty and a nonempty output.
C13_Witness ==
    /\ last.op = "add"
    /\ last.notice
    /\ Cardinality(DOMAIN registry) >= 2
    /\ \E i, j \in DOMAIN registry : registry[i] = << >> /\ registry[j] # << >>

\* The nodes of the trie that are not the root and have no children.
Leaves(t) ==
    {n \in DOMAIN t \ {Root} : ~ \E ch \in Chars : Append(n, ch) \in DOMAIN t}

\* C20 (trie leaf invariant): after any add calls every node that is not
\* the root and has no children carries an output, so a process call whose
\* chunk ends on a childless node finds an output to emit and does not fail.
C20_LeafHasOutput ==
    /\ \A n \in Leaves(trie) : IsSome(trie[n])
    /\ ~ failed

\* A process call whose chunk ended on a childless node two or more levels
\* below a node without an output.
C20_Witness ==
    /\ last.op = "process"
    /\ \E i \in Resolved : last.events[i].kind = "leaf"
    /\ \E n \in Leaves(trie) :
           /\ Len(n) >= 2
           /\ trie[SubSeq(n, 1, Len(n) - 1)] = None

---------------------------------------------------------------------------
(***************************************************************************)
(* The escape notation, read off the documentation: a backslash and one of *)
(* t n r ' " \ stand for the character they denote, \u{H...} for the code  *)
(* point with the hex digits H...; every other character stands for        *)
(* itself.  Lex(s, i) reads s from its i-th character (1-based) on and     *)
(* gives the decoded text (status "ok"), or the kind and the position of   *)
(* the first malformed escape ("error"), or "incomplete" when s ends       *)
(* inside an escape.                                                       *)
(***************************************************************************)
Denoted ==
    [c \in {"t", "n", "r", "'", "\"", "\\"} |->
        CASE c = "t" -> "\t" [] c = "n" -> "\n" [] c = "r" -> "\r" [] OTHER -> c]

IsHex(c) == \E i \in 1..16 : HexDigits[i] = c \/ HexDigitsUpper[i] = c

RECURSIVE HexVal(_)
HexVal(digits) ==
    IF digits = << >> THEN 0
    ELSE LET n == Len(digits)
         IN  HexVal(SubSeq(digits, 1, n - 1)) * 16
                 + (CHOOSE i \in 1..16 : HexDigits[i] = digits[n]
                                            \/ HexDigitsUpper[i] = digits[n]) - 1

LexOk(out) == [status |-> "ok", out |-> out, kind |-> "", at |-> 0]
LexError(kind, at) == [status |-> "error", out |-> << >>, kind |-> kind, at |-> at]
LexIncomplete == [status |-> "incomplete", out |-> << >>, kind |-> "", at |-> 0]

Cons(c, r) == IF r.status = "ok" THEN LexOk(<<c>> \o r.out) ELSE r

\* Where the digits that begin at position d stop: at the end of s, at a
\* closing brace, at a character that is no hex digit, or at the first
\* digit with which the value exceeds 0x10FFFF.
DigitsStop(s, d) ==
    CHOOSE k \in d..(Len(s) + 1) :
        /\ \A j \in d..(k - 1) : IsHex(s[j]) /\ HexVal(SubSeq(s, d, j)) <= MaxCodePoint
        /\ \/ k = Len(s) + 1
           \/ ~ IsHex(s[k])
           \/ HexVal(SubSeq(s, d, k)) > MaxCodePoint

RECURSIVE Lex(_, _)
Lex(s, i) ==
    IF i > Len(s) THEN LexOk(<< >>)
    ELSE IF s[i] # "\\" THEN Cons(s[i], Lex(s, i + 1))
    ELSE IF i = Len(s) THEN LexIncomplete
    ELSE IF s[i + 1] \in DOMAIN Denoted THEN Cons(Denoted[s[i + 1]], Lex(s, i + 2))
    ELSE IF s[i + 1] # "u" THEN LexError("BadEscape", i + 1)
    ELSE IF i + 1 = Len(s) THEN LexIncomplete
    ELSE IF s[i + 2] # "{" THEN LexError("MissingOpenBrace", i + 2)
    ELSE LET k == DigitsStop(s, i + 3)
         IN  IF k = Len(s) + 1 THEN LexIncomplete
             ELSE IF s[k] = "}"
             THEN IF from_u32(HexVal(SubSeq(s, i + 3, k - 1))) = None
                  THEN LexError("InvalidUnicodeValue", k)
                  ELSE Cons(Unwrap(from_u32(HexVal(SubSeq(s, i + 3, k - 1)))),
                            Lex(s, k + 1))
             ELSE IF ~ IsHex(s[k]) THEN LexError("NonHexDigit", k)
             ELSE LexError("HexValueTooLarge", k)

\* The whitespace-delimited tokens of a line, as the pairs of the positions
\* where they begin and end, and the n-th of them.
TokenBounds(line) ==
    {b \in (1..Len(line)) \X (1..Len(line)) :
        /\ b[1] <= b[2]
        /\ \A j \in b[1]..b[2] : line[j] \notin WhiteSpace
        /\ b[1] = 1 \/ line[b[1] - 1] \in WhiteSpace
        /\ b[2] = Len(line) \/ line[b[2] + 1] \in WhiteSpace}

Token(line, n) ==
    LET b == CHOOSE b \in TokenBounds(line) :
                 Cardinality({a \in TokenBounds(line) : a[1] < b[1]}) = n - 1
    IN  SubSeq(line, b[1], b[2])

IsComment(line) == line = << >> \/ line[1] \in WhiteSpace

\* The config line of the crate documentation: a straight quote, white
\* space, \u{2019}.
DocLine == <<"'", " ", " ", "\\", "u", "{", "2", "0", "1", "9", "}">>

\* C14 (escapes decoded at load time): a mapping line whose two tokens are
\* well-formed gives the rule (decoded first token, decoded second token),
\* so that loading the line of the documentation registers the straight
\* quote with the single character U+2019 as output; a mapping line with a
\* malformed escape in one of its two tokens makes
\* parse_charsub_config_line return an error.
C14_EscapesDecodedAtLoad ==
    /\ from_buf_reader(<<DocLine>>) = Ok(add(SubstitutionTrie_new, <<"'">>, <<"U+2019">>))
    /\ IsSome(ret) =>
         \A i \in 1..Len(arg) :
            (~ IsComment(arg[i]) /\ Cardinality(TokenBounds(arg[i])) >= 2) =>
                LET from == Lex(Token(arg[i], 1), 1)
                    to == Lex(Token(arg[i], 2), 1)
                    result == parse_charsub_config_line(arg[i])
                IN  /\ (from.status = "ok" /\ to.status = "ok") =>
                          result.ok /\ result.val = Some(<<from.out, to.out>>)
                    /\ (from.status = "error" \/ to.status = "error") => ~ result.ok

OneToken(line) == ~ IsComment(line) /\ Cardinality(TokenBounds(line)) = 1

\* C16 (missing map-to value): for a line that begins with a character
\* that is no whitespace and has exactly one token,
\* parse_charsub_config_line returns MissingMapToValue with the text of
\* the whole line; from_buf_reader returns the error of the first such
\* line and no engine, so no line of the file is applied.
C16_MissingMapToValue ==
    IsSome(ret) =>
        \A i \in 1..Len(arg) :
            OneToken(arg[i]) =>
                /\ ~ parse_charsub_config_line(arg[i]).ok
                /\ parse_charsub_config_line(arg[i]).err = MissingMapToValue(arg[i])
                /\ (\A j \in 1..(i - 1) : ~ OneToken(arg[j])) =>
                        /\ ~ Unwrap(ret).ok
                        /\ Unwrap(ret).err = MissingMapToValue(arg[i])
                        /\ trie = SubstitutionTrie_new

\* A file was loaded whose second line of three has one token followed by
\* whitespace.
C16_Witness ==
    /\ IsSome(ret)
    /\ ~ Unwrap(ret).ok
    /\ Len(arg) = 3
    /\ OneToken(arg[2])
    /\ arg[2][Len(arg[2])] \in WhiteSpace

\* C17 (escape decoding): for an input of ordinary characters and
\* well-formed escapes unescape returns the decoded text: every escape
\* replaced by the character it denotes, every other character kept, in
\* order (an input without a backslash comes back as it is).
C17_EscapeDecoding ==
    (IsSome(ret) /\ Lex(arg, 1).status = "ok") =>
        /\ Unwrap(ret).ok
        /\ Unwrap(ret).val = Lex(arg, 1).out

\* C18 (escape error classification): for an input whose first malformed
\* escape is of a given kind (a character after a backslash that is not one
\* of t n r ' " \ u; no open brace after \u; a character in the braces that
\* is neither a hex digit nor the closing brace; a digit with which the
\* value exceeds 0x10FFFF; a closing brace after the digits of a surrogate)
\* unescape fails with the error of that kind, at that character.
C18_ErrorClassification ==
    (IsSome(ret) /\ Lex(arg, 1).status = "error") =>
        /\ ~ Unwrap(ret).ok
        /\ Unwrap(ret).err.kind = Lex(arg, 1).kind
        /\ Len(Unwrap(ret).err.parsed) = Lex(arg, 1).at - 1

\* C19 (escape error payload): an error of unescape carries the input up
\* to, and without, the character at which parsing failed (unescape
\* succeeds on that much of the input and fails with that character added)
\* and that character, the closing brace for an invalid code point; the
\* two concatenated are a prefix of the input.
C19_ErrorPayload ==
    (IsSome(ret) /\ ~ Unwrap(ret).ok) =>
        LET e == Unwrap(ret).err
        IN  /\ \E k \in 0..(Len(arg) - 1) :
                   /\ e.parsed = SubSeq(arg, 1, k)
                   /\ e.ch = arg[k + 1]
                   /\ unescape(SubSeq(arg, 1, k)).ok
                   /\ ~ unescape(SubSeq(arg, 1, k + 1)).ok
            /\ IsPrefix(Append(e.parsed, e.ch), arg)
            /\ e.kind = "InvalidUnicodeValue" => e.ch = "}"

\* unescape failed at the closing brace of a surrogate that follows
\* ordinary text.
C19_Witness ==
    /\ IsSome(ret)
    /\ ~ Unwrap(ret).ok
    /\ Unwrap(ret).err.kind = "InvalidUnicodeValue"
    /\ Len(Unwrap(ret).err.parsed) >= 8
    /\ arg[1] = "q"

---------------------------------------------------------------------------
\* C21 (frame conditions): a process call and a flush call leave the trie
\* as it is (its nodes, their children and their outputs), and an
\* add_substitution call leaves pending as it is.
C21_FrameConditions ==
    [][ /\ last'.op \in {"process", "flush"} => trie' = trie
        /\ last'.op = "add" => unprocessed' = unprocessed ]_vars

\* An add_substitution call that found a pending candidate, left by a
\* process call on a trie with rules.
C21_Witness ==
    /\ last.op = "add"
    /\ IsSome(last.pending)
    /\ unprocessed = last.pending
    /\ RuleCount(trie) >= 2

\* The text that accounts for the characters i .. k-1 (0-based) of text,
\* given the candidates that were resolved: what was emitted for each
\* candidate, in place of it, and every other character as it is.
RECURSIVE Accounted(_, _, _, _)
Accounted(events, text, i, k) ==
    IF i >= k THEN << >>
    ELSE IF \E n \in 1..Len(events) : events[n].start = i /\ events[n].stop > i
    THEN LET e == events[CHOOSE n \in 1..Len(events) :
                             events[n].start = i /\ events[n].stop > i]
         IN  e.emit \o Accounted(events, text, e.stop, k)
    ELSE <<text[i + 1]>> \o Accounted(events, text, i + 1, k)

\* The text of an optional buffer.
TextOf(o) == IF IsSome(o) THEN Unwrap(o) ELSE << >>

\* C22 (previous pending is fully consumed): a process call scans the old
\* pending followed by the chunk, and what it returns and leaves is what a
\* call on that text gives on an engine with nothing pending (the scan
\* starts at the trie root, at offset 0, with pending cleared); on return
\* pending is absent or a suffix of the scanned text, and the text returned
\* accounts for everything before that suffix: the resolved candidates by
\* what was emitted for them, every other character by itself.
C22_PendingFullyConsumed ==
    last.op = "process" =>
        LET text == TextOf(last.pending) \o last.chunk
            k == Len(text) - Len(TextOf(unprocessed))
        IN  /\ last.effective = text
            /\ last.out = process(trie, None, text).out
            /\ unprocessed = process(trie, None, text).unprocessed
            /\ k >= 0
            /\ TextOf(unprocessed) = SubSeq(text, k + 1, Len(text))
            /\ \A n \in 1..Len(last.events) : last.events[n].stop <= k
            /\ last.out = Accounted(last.events, text, 0, k)

\* A process call that found a pending candidate, resolved a candidate,
\* returned more than what it emitted for it, changed the text and left a
\* new pending candidate.
C22_Witness ==
    /\ last.op = "process"
    /\ IsSome(last.pending)
    /\ last.chunk # << >>
    /\ last.events # << >>
    /\ IsSome(unprocessed)
    /\ Len(last.out) > Len(last.events[1].emit)
    /\ last.out # SubSeq(last.effective, 1, Len(last.out))

\* C23 (bounded lookahead): in every state the trie node pending ends at
\* has a child, and pending is shorter than the longest registered rule
\* input, however many chunks have been processed.
C23_BoundedLookahead ==
    IsSome(unprocessed) =>
        /\ \E ch \in Chars : Append(Unwrap(unprocessed), ch) \in DOMAIN trie
        /\ \E i \in DOMAIN registry : Len(Unwrap(unprocessed)) < Len(i)

\* A pending candidate of two or more characters left by a process call
\* that had found a pending candidate itself, on a trie in which the
\* candidate is a rule input.
C23_Witness ==
    /\ last.op = "process"
    /\ IsSome(last.pending)
    /\ IsSome(unprocessed)
    /\ Len(Unwrap(unprocessed)) >= 2
    /\ IsRule(trie, Unwrap(unprocessed))

\* Every rule of the trie maps its input to itself.
AllIdentity(t) == \A n \in DOMAIN t : IsSome(t[n]) => t[n] = Some(n)

\* C24 (conservation of text): when every rule maps its input to itself,
\* whatever the text and its chunking, what the process calls of a run
\* returned followed by what is pending is the text fed so far, and with
\* what the flush returned it is the whole text: no character is lost,
\* duplicated or moved.
C24_Conservation ==
    AllIdentity(trie) =>
        /\ phase = "run" => acc \o TextOf(unprocessed) = fed
        /\ phase = "flushed" => acc = fed /\ unprocessed = None

\* A finished run of three or more characters, with a candidate carried
\* over a chunk boundary, whose text leaves the rule paths of a trie with
\* two or more rules after its second character.
C24_Witness ==
    /\ phase = "flushed"
    /\ split
    /\ Len(fed) >= 3
    /\ RuleCount(trie) >= 2
    /\ AllIdentity(trie)
    /\ SubSeq(fed, 1, 2) \in DOMAIN trie
    /\ SubSeq(fed, 1, 3) \notin DOMAIN trie
    /\ acc = fed

\* The trie with the same rules but the one with the empty input.
WithoutEmptyRule(t) == [t EXCEPT ![Root] = None]

\* C25 (a rule with an empty input is inert): every process call and every
\* flush call returns, and leaves pending, what it would on an engine with
\* the same other rules and no rule with an empty input; the two engines
\* begin with nothing pending, so they agree after every sequence of calls.
C25_EmptyInputRuleIsInert ==
    /\ last.op = "process" =>
           /\ last.out = process(WithoutEmptyRule(trie), last.pending, last.chunk).out
           /\ unprocessed
                  = process(WithoutEmptyRule(trie), last.pending, last.chunk).unprocessed
    /\ last.op = "flush" =>
           /\ last.out = flush(WithoutEmptyRule(trie), last.pending).out
           /\ unprocessed = flush(WithoutEmptyRule(trie), last.pending).unprocessed

\* A process call on an engine with the rule "" -> "x" and another rule,
\* which found a pending candidate and resolved a dead end on a node
\* without an output.
C25_Witness ==
    /\ last.op = "process"
    /\ trie[Root] = Some(<<"x">>)
    /\ RuleCount(trie) >= 2
    /\ IsSome(last.pending)
    /\ \E i \in Resolved :
           /\ last.events[i].kind = "dead_end"
           /\ trie[Candidate(last.events[i])] = None

\* The loop of _flush_substitution on input p, whether the call then makes
\* the recursive call (lines 213-219), and the argument of that call.
Walked(t, p) ==
    flush_walk(t, p, 0, [curr_node |-> Root, end_of_mapping |-> 0,
                         in_substitution |-> FALSE, failed |-> FALSE])

Recurses(t, p) ==
    /\ ~ Walked(t, p).failed
    /\ t[Walked(t, p).curr_node] = None
    /\ end_of_mapping(p, Walked(t, p)) # 0

Nested(t, p) == Slice(p, 0, end_of_mapping(p, Walked(t, p)))

\* C29 (backtracking terminates in one step): on every path of the trie
\* _flush_substitution returns, without a failed unwrap(); where it makes
\* its recursive call, the argument is a nonempty proper prefix of the
\* input that ends on a node with an output, so the nested call makes no
\* further call and returns that output with no remainder, and the outer
\* call returns that output and the rest of its input.
C29_BacktrackingOneStep ==
    \A p \in DOMAIN trie :
        /\ ~ _flush_substitution(trie, p).failed
        /\ Recurses(trie, p) =>
               LET q == Nested(trie, p)
               IN  /\ q # << >>
                   /\ Len(q) < Len(p)
                   /\ IsPrefix(q, p)
                   /\ IsSome(trie[q])
                   /\ ~ Recurses(trie, q)
                   /\ _flush_substitution(trie, q)
                          = [sub |-> Unwrap(trie[q]), rem |-> None, failed |-> FALSE]
                   /\ _flush_substitution(trie, p)
                          = [sub |-> Unwrap(trie[q]),
                             rem |-> Some(SubSeq(p, Len(q) + 1, Len(p))),
                             failed |-> FALSE]

\* A flush of a pending candidate for which _flush_substitution made its
\* recursive call, on a prefix that is not the first prefix with an
\* output.
C29_Witness ==
    /\ last.op = "flush"
    /\ IsSome(last.pending)
    /\ Recurses(trie, Unwrap(last.pending))
    /\ \E k \in 1..(Len(Nested(trie, Unwrap(last.pending))) - 1) :
           IsRule(trie, SubSeq(Unwrap(last.pending), 1, k))


\* The text decoded from s before the escape that the end of s cuts short:
\* the decoding of the longest prefix of s that is complete.
DecodedSoFar(s) ==
    LET k == CHOOSE k \in 0..Len(s) :
                 /\ Lex(SubSeq(s, 1, k), 1).status = "ok"
                 /\ \A j \in (k + 1)..Len(s) : Lex(SubSeq(s, 1, j), 1).status # "ok"
    IN  Lex(SubSeq(s, 1, k), 1).out

\* An input in which no backslash is followed by one of t n r ' " \.
NoOneCharEscape(s) ==
    \A i \in 1..(Len(s) - 1) : s[i] = "\\" => s[i + 1] \notin DOMAIN Denoted

\* C26 (incomplete trailing escape): for an input that ends within an
\* escape (after a lone backslash, after \u, or after \u{ and hex digits
\* only) unescape succeeds and returns the text decoded before that
\* escape, with nothing for the escape itself.
C26_IncompleteTrailingEscape ==
    (IsSome(ret) /\ Lex(arg, 1).status = "incomplete") =>
        Unwrap(ret) = Ok(DecodedSoFar(arg))

\* C27 (unescaping never lengthens): a result of unescape has at most as
\* many characters as the input, and modified_string at most as many bytes
\* (the characters of the inputs are of one byte each).
C27_NeverLengthens ==
    (IsSome(ret) /\ Unwrap(ret).ok) =>
        /\ Len(Unwrap(ret).val) <= Len(arg)
        /\ unescape_loop(arg, 0, unescape_locals).val.modified_len <= Len(arg)

\* C27 witness: unescape has succeeded on an input with a \u{...} escape
\* of a character of four bytes and with a later backslash.
C27_Witness ==
    /\ IsSome(ret)
    /\ Unwrap(ret).ok
    /\ \E i \in 1..Len(Unwrap(ret).val) : Unwrap(ret).val[i] = "U+10FFFF"
    /\ arg[Len(arg)] = "\\"
    /\ unescape_loop(arg, 0, unescape_locals).val.modified_len >= 4

\* unicode_value is at most 0x10FFFF, and its update is below 2^31, at the
\* start of every step of the loop of unescape from the step at index on.
RECURSIVE EveryStep(_, _, _)
EveryStep(input, index, st) ==
    /\ st.unicode_value <= MaxCodePoint
    /\ st.unicode_value * 16 + 15 <= 2147483647
    /\ \/ index = Len(input)
       \/ LET r == unescape_step(input, index, st)
          IN  r.ok => EveryStep(input, index + 1, r.val)

\* Some step of the loop of unescape on input starts in State::InUnicode
\* with the value v in unicode_value.
RECURSIVE SomeStep(_, _, _, _)
SomeStep(input, index, st, v) ==
    \/ st.state = "InUnicode" /\ st.unicode_value = v
    \/ /\ index < Len(input)
       /\ LET r == unescape_step(input, index, st)
          IN  r.ok /\ SomeStep(input, index + 1, r.val, v)

\* An input that begins with \u{, with three zeros put after the brace.
BeginsEscape(s) == Len(s) >= 3 /\ SubSeq(s, 1, 3) = <<"\\", "u", "{">>
WithLeadingZeros(s) == SubSeq(s, 1, 3) \o <<"0", "0", "0">> \o SubSeq(s, 4, Len(s))

\* C28 (the \u accumulator stays in range): at the start of every step of
\* the decoder unicode_value is at most 0x10FFFF, so that
\* (unicode_value << 4) + digit is below 2^31 and a fortiori fits in 32
\* bits; leading zeros, which make the digits more than eight, do not
\* change the text decoded; \u{} decodes to U+0000.
C28_AccumulatorInRange ==
    IsSome(ret) =>
        /\ EveryStep(arg, 0, unescape_locals)
        /\ arg = <<"\\", "u", "{", "}">> => Unwrap(ret) = Ok(<<"U+0000">>)
        /\ (Unwrap(ret).ok /\ BeginsEscape(arg)) =>
               unescape(WithLeadingZeros(arg)) = Unwrap(ret)

\* C28 witness: unescape has decoded an escape of six digits with the
\* largest value, 10FFFF.
C28_Witness ==
    /\ IsSome(ret)
    /\ Unwrap(ret).ok
    /\ BeginsEscape(arg)
    /\ SomeStep(arg, 0, unescape_locals, MaxCodePoint)
    /\ \E i \in 1..Len(Unwrap(ret).val) : Unwrap(ret).val[i] = "U+10FFFF"

=============================================================================
